---- MODULE Spec2Model ----
(***************************************************************************)
(* Model of the detection-session persistence and counting workflow of     *)
(* object-counter: DetectionService (src/modules/detection/services.py),   *)
(* MySQLObjectCountRepository (src/modules/adps/mysql_object.py) and the   *)
(* DatabaseMixin primitives (src/common/database.py) over the four tables  *)
(* of src/modules/detection/models.py.                                     *)
(*                                                                         *)
(* Floats (threshold, confidence) are modelled in tenths: 8 stands for     *)
(* 0.8, so the range [0.0, 1.0] is 0..10.  A database session is a unit of *)
(* work: the committed rows (db) and the working copy (work) that commit   *)
(* publishes and rollback discards.  Every handler is one action; the step *)
(* at which the database raises an SQLAlchemyError is an input (fail).     *)
(***************************************************************************)
EXTENDS Integers, Sequences, FiniteSets, TLC

VARIABLES db, files, last, db_driver, calls

vars == <<db, files, last, db_driver, calls>>

MaxInc == 2
MaxCount == 4
MaxPreds == 2
MaxDetections == 2

SessionIds == {1, 2}
Classes == {"cat", "person"}
Thresholds == {-1, 0, 8, 10, 15}

NULL == "NULL"
NOW == "now"
None == "None"

Prediction(class_name, confidence, bbox) ==
    [class_name |-> class_name, confidence |-> confidence, bbox |-> bbox]

(* Against a session threshold of 0.8: one prediction above it, one on it  *)
(* and one below it; against 0.9: one on it and two below it.              *)
Predictions ==
    {Prediction("cat", 9, <<1, 2, 3, 4>>), Prediction("person", 8, <<5, 6, 7, 8>>),
     Prediction("cat", 7, <<1, 2, 3, 4>>)}

RECURSIVE SeqsUpTo(_, _)
SeqsUpTo(S, n) ==
    IF n = 0 THEN {<<>>}
    ELSE LET shorter == SeqsUpTo(S, n - 1)
         IN shorter \cup {Append(s, x) : s \in {t \in shorter : Len(t) = n - 1}, x \in S}

PredictionLists == SeqsUpTo(Predictions, MaxPreds)

CountMaps == UNION {[D -> 1..MaxInc] : D \in SUBSET Classes}

RECURSIVE SumValues(_)
SumValues(f) ==
    IF DOMAIN f = {} THEN 0
    ELSE LET k == CHOOSE x \in DOMAIN f : TRUE
         IN f[k] + SumValues([x \in DOMAIN f \ {k} |-> f[x]])

(***************************************************************************)
(* Rows                                                                    *)
(***************************************************************************)
(* Instants are counted in half days: day d begins at instant 2 * d.  A    *)
(* session row is built at instant 0, for an upload whose dimensions       *)
(* cannot be read (width, height = 0, 0), unless a specification says      *)
(* otherwise.                                                              *)
(* the session row built with a default threshold of 0.5                  *)
DetectionSession_default(threshold) ==
    [threshold |-> 5, total_objects_detected |-> 0, expired_at |-> NULL,
     image_width |-> 0, image_height |-> 0, created_at |-> 0, updated_at |-> 0]

DetectionSession(threshold) ==
    [threshold |-> threshold, total_objects_detected |-> 0, expired_at |-> NULL,
     image_width |-> 0, image_height |-> 0, created_at |-> 0, updated_at |-> 0]

DetectionImage(session_id) ==
    [session_id |-> session_id, expired_at |-> NULL]

DetectionCount(session_id, class_name, count) ==
    [session_id |-> session_id, class_name |-> class_name, count |-> count,
     expired_at |-> NULL]

Detection(session_id, p) ==
    [session_id |-> session_id, class_name |-> p.class_name,
     confidence |-> p.confidence, bbox |-> p.bbox]

EmptyDb ==
    [sessions |-> <<>>, images |-> <<>>, counts |-> {}, detections |-> <<>>]

(***************************************************************************)
(* Table constraints, checked by the database when a flush writes rows.    *)
(***************************************************************************)
ConstraintsOK(d) ==
    /\ \A s \in DOMAIN d.sessions :
          d.sessions[s].threshold >= 0 /\ d.sessions[s].threshold <= 10
    /\ \A r \in d.counts : r.count > 0 /\ r.session_id \in DOMAIN d.sessions
    /\ \A r1, r2 \in d.counts :
          (r1.session_id = r2.session_id /\ r1.class_name = r2.class_name) => r1 = r2
    /\ \A i \in DOMAIN d.detections :
          /\ d.detections[i].session_id \in DOMAIN d.sessions
          /\ d.detections[i].confidence >= 0 /\ d.detections[i].confidence <= 10
          /\ d.detections[i].bbox[1] < d.detections[i].bbox[3]
          /\ d.detections[i].bbox[2] < d.detections[i].bbox[4]
    /\ \A s \in DOMAIN d.images : d.images[s].session_id \in DOMAIN d.sessions

(***************************************************************************)
(* The unit of work of one database session.                               *)
(***************************************************************************)
Begin(d) == [db |-> d, work |-> d, commits |-> 0]

Commit(u) == [db |-> u.work, work |-> u.work, commits |-> u.commits + 1]

Rollback(u) == [u EXCEPT !.work = u.db]

(* How a call ends: the unit of work it leaves, the HTTP status (200 when   *)
(* it returns), the value returned, and the step at which the database     *)
(* raised an SQLAlchemyError ("none" when it raised none).                 *)
Outcome(u, status, detail, ret) ==
    [u |-> u, status |-> status, detail |-> detail, ret |-> ret, raised |-> "none"]

Raised(at, u, status, detail) ==
    [u |-> u, status |-> status, detail |-> detail, ret |-> None, raised |-> at]

Fail(at, done) == [at |-> at, done |-> done]

NoFail == Fail("none", {})

(***************************************************************************)
(* MySQLObjectCountRepository                                              *)
(***************************************************************************)
existing(work, session_id, class_name) ==
    {r \in work.counts : r.session_id = session_id /\ r.class_name = class_name}

(* upsert with the existing row's count overwritten instead of incremented *)
upsert_overwrites(work, session_id, class_name, count) ==
    [work EXCEPT !.counts =
       (@ \ existing(work, session_id, class_name))
           \cup {DetectionCount(session_id, class_name, count)}]

upsert(work, session_id, class_name, count) ==
    LET ex == existing(work, session_id, class_name)
    IN IF ex # {}
       THEN LET r == CHOOSE x \in ex : TRUE
            IN [work EXCEPT !.counts = (@ \ {r}) \cup {[r EXCEPT !.count = r.count + count]}]
       ELSE [work EXCEPT !.counts = @ \cup {DetectionCount(session_id, class_name, count)}]

RECURSIVE upsert_all(_, _, _, _)
upsert_all(work, session_id, counts, todo) ==
    IF todo = {} THEN work
    ELSE LET c == CHOOSE x \in todo : TRUE
         IN upsert_all(upsert(work, session_id, c, counts[c]), session_id, counts,
                       todo \ {c})

(* save_counts committing after every class instead of once at the end    *)
save_counts_commit_each(u, session_id, counts, fail) ==
    LET failed(at, x) == Raised(at, Rollback(x), 500, "Failed to save counts")
    IN IF fail.at = "session_query" THEN failed("session_query", u)
       ELSE IF session_id \notin DOMAIN u.work.sessions THEN failed("no_result", u)
       ELSE LET w1 == [u.work EXCEPT
                         !.sessions[session_id].total_objects_detected =
                             SumValues(counts)]
                u2 == [u EXCEPT !.work =
                         upsert_all(w1, session_id, counts, DOMAIN counts)]
            IN IF fail.at = "count_query"
               THEN failed("count_query",
                           Commit([u EXCEPT !.work =
                                     upsert_all(w1, session_id, counts, fail.done)]))
               ELSE IF fail.at = "commit" THEN failed("commit", u2)
               ELSE IF ~ConstraintsOK(u2.work) THEN failed("integrity", u2)
               ELSE Outcome(Commit(u2), 200, "", None)

(* save_counts looking the session up with first() and going on without    *)
(* it when there is none                                                   *)
save_counts_lenient(u, session_id, counts, fail) ==
    LET failed(at, x) == Raised(at, Rollback(x), 500, "Failed to save counts")
    IN IF fail.at = "session_query" THEN failed("session_query", u)
       ELSE LET w1 == IF session_id \in DOMAIN u.work.sessions
                      THEN [u.work EXCEPT
                              !.sessions[session_id].total_objects_detected =
                                  SumValues(counts)]
                      ELSE u.work
                u2 == [u EXCEPT !.work =
                         upsert_all(w1, session_id, counts, DOMAIN counts)]
            IN IF fail.at = "count_query"
               THEN failed("count_query",
                           [u EXCEPT !.work =
                              upsert_all(w1, session_id, counts, fail.done)])
               ELSE IF fail.at = "commit" THEN failed("commit", u2)
               ELSE IF ~ConstraintsOK(u2.work) THEN failed("integrity", u2)
               ELSE Outcome(Commit(u2), 200, "", None)

save_counts(u, session_id, counts, fail) ==
    LET failed(at, x) == Raised(at, Rollback(x), 500, "Failed to save counts")
    IN IF fail.at = "session_query" THEN failed("session_query", u)
       ELSE IF session_id \notin DOMAIN u.work.sessions THEN failed("no_result", u)
       ELSE LET w1 == [u.work EXCEPT
                         !.sessions[session_id].total_objects_detected =
                             SumValues(counts)]
                u2 == [u EXCEPT !.work =
                         upsert_all(w1, session_id, counts, DOMAIN counts)]
            IN IF fail.at = "count_query"
               THEN failed("count_query",
                           [u EXCEPT !.work =
                              upsert_all(w1, session_id, counts, fail.done)])
               ELSE IF fail.at = "commit" THEN failed("commit", u2)
               ELSE IF ~ConstraintsOK(u2.work) THEN failed("integrity", u2)
               ELSE Outcome(Commit(u2), 200, "", None)

get_counts(u, session_id) ==
    LET rows == {r \in u.work.counts : r.session_id = session_id}
    IN Outcome(u, 200, "",
               [c \in {r.class_name : r \in rows} |->
                  (CHOOSE r \in rows : r.class_name = c).count])

(* get_total_count recomputing the total from the session's count rows    *)
get_total_count_recomputed(u, session_id) ==
    IF session_id \notin DOMAIN u.work.sessions
    THEN Raised("no_result", u, 500, "Failed to retrieve total count")
    ELSE Outcome(u, 200, "", SumValues(get_counts(u, session_id).ret))

get_total_count(u, session_id) ==
    IF session_id \notin DOMAIN u.work.sessions
    THEN Raised("no_result", u, 500, "Failed to retrieve total count")
    ELSE Outcome(u, 200, "", u.work.sessions[session_id].total_objects_detected)

(***************************************************************************)
(* DatabaseMixin                                                           *)
(***************************************************************************)
(* the lookup without the filter on expired_at                            *)
get_by_id_unfiltered(u, session_id) ==
    IF session_id \in DOMAIN u.work.sessions
    THEN Outcome(u, 200, "", u.work.sessions[session_id])
    ELSE Outcome(u, 404, "No entity found with id", None)

get_by_id(u, session_id) ==
    IF session_id \in DOMAIN u.work.sessions
       /\ u.work.sessions[session_id].expired_at = NULL
    THEN Outcome(u, 200, "", u.work.sessions[session_id])
    ELSE Outcome(u, 404, "No entity found with id", None)

expire_session(work, session_id) ==
    [work EXCEPT !.sessions[session_id].expired_at = NOW]

expire_count(work, row) ==
    [work EXCEPT !.counts = (@ \ {row}) \cup {[row EXCEPT !.expired_at = NOW]}]

(* delete(entity): expired is the working copy with entity.expired_at set. *)
(* A failure is re-raised as HTTP 400 without a rollback.                  *)
delete(u, expired, fail) ==
    LET u1 == [u EXCEPT !.work = expired]
    IN IF fail.at = "commit" THEN Raised("commit", u1, 400, "str(e)")
       ELSE IF ~ConstraintsOK(u1.work) THEN Raised("integrity", u1, 400, "str(e)")
       ELSE IF fail.at = "refresh"
       THEN Raised("refresh", Commit(u1), 400, "str(e)")
       ELSE Outcome(Commit(u1), 200, "", None)

(***************************************************************************)
(* DetectionService: reads and detect_objects                              *)
(***************************************************************************)
get_session_threshold(u, session_id) ==
    LET g == get_by_id(u, session_id)
    IN IF g.status = 200 THEN Outcome(u, 200, "", g.ret.threshold) ELSE g

projection(det) ==
    [class_name |-> det.class_name, confidence |-> det.confidence, bbox |-> det.bbox]

get_detections(u, session_id) ==
    LET rows == SelectSeq(u.work.detections, LAMBDA det : det.session_id = session_id)
    IN Outcome(u, 200, "", [i \in 1..Len(rows) |-> projection(rows[i])])

(* the filter with the boundary excluded                                   *)
kept_predictions_strict(predictions, threshold) ==
    SelectSeq(predictions, LAMBDA p : p.confidence > threshold)

kept_predictions(predictions, threshold) ==
    SelectSeq(predictions, LAMBDA p : p.confidence >= threshold)

(* every class among the kept predictions counted once                     *)
count_by_class_presence(kept) ==
    [c \in {kept[i].class_name : i \in 1..Len(kept)} |-> 1]

count_by_class(kept) ==
    [c \in {kept[i].class_name : i \in 1..Len(kept)} |->
       Cardinality({i \in 1..Len(kept) : kept[i].class_name = c})]

detect_objects(u, session_id, predictions, fail) ==
    LET failed(at, x) == Raised(at, Rollback(x), 400, "Failed to process detections")
        g == get_session_threshold(u, session_id)
    IN IF predictions # <<>> /\ fail.at = "threshold_query"
       THEN failed("threshold_query", u)
       ELSE IF predictions # <<>> /\ g.status # 200 THEN g
       ELSE LET kept == IF predictions = <<>> THEN <<>>
                        ELSE kept_predictions(predictions, g.ret)
                object_counts == count_by_class(kept)
                total_objects == Len(kept)
                u1 == [u EXCEPT !.work.detections =
                         @ \o [i \in 1..Len(kept) |-> Detection(session_id, kept[i])]]
                s == save_counts(u1, session_id, object_counts, fail)
                session == get_by_id(s.u, session_id)
                u2 == [s.u EXCEPT !.work.sessions[session_id].total_objects_detected =
                         total_objects]
            IN IF s.status # 200 THEN s
               ELSE IF fail.at = "final_get" THEN failed("final_get", s.u)
               ELSE IF session.status # 200 THEN session
               ELSE IF fail.at = "final_commit" THEN failed("final_commit", u2)
               ELSE IF ~ConstraintsOK(u2.work) THEN failed("integrity", u2)
               ELSE IF fail.at \in {"refresh", "get_detections"}
               THEN failed(fail.at, Commit(u2))
               ELSE Outcome(Commit(u2), 200, "",
                            [session_id |-> session_id,
                             object_counts |-> object_counts,
                             detections |-> get_detections(Commit(u2), session_id).ret,
                             total_objects_detected |-> total_objects,
                             threshold_applied |-> session.ret.threshold])

(***************************************************************************)
(* DetectionService.create_detection_session                               *)
(***************************************************************************)
uuid4(d) ==
    LET fresh == SessionIds \ DOMAIN d.sessions
    IN IF fresh = {} THEN 0 ELSE CHOOSE x \in fresh : \A y \in fresh : x <= y

(* the range check with the bounds excluded                                *)
valid_threshold_exclusive(threshold) == 0 < threshold /\ threshold < 10

valid_threshold(threshold) == 0 <= threshold /\ threshold <= 10

create_detection_session(d, fs, threshold, fail) ==
    IF ~valid_threshold(threshold)
    THEN [o |-> Outcome(Begin(d), 400, "Threshold must be between 0.0 and 1.0", None),
          files |-> fs, session_id |-> 0]
    ELSE LET session_id == uuid4(d)
             written == fs \cup {session_id}
             u1 == [Begin(d) EXCEPT !.work.sessions =
                      @ @@ (session_id :> DetectionSession(threshold))]
             u2 == [u1 EXCEPT !.work.images =
                      @ @@ (session_id :> DetectionImage(session_id))]
             failed(at, u) ==
                 [o |-> Raised(at, Rollback(u), 400, "Failed to create detection session"),
                  files |-> written \ {session_id}, session_id |-> session_id]
         IN IF fail.at = "flush" THEN failed("flush", u1)
            ELSE IF ~ConstraintsOK(u1.work) THEN failed("integrity", u1)
            ELSE IF fail.at = "commit" THEN failed("commit", u2)
            ELSE IF ~ConstraintsOK(u2.work) THEN failed("integrity", u2)
            ELSE IF fail.at = "refresh" THEN failed("refresh", Commit(u2))
            ELSE [o |-> Outcome(Commit(u2), 200, "", session_id),
                  files |-> written, session_id |-> session_id]

(***************************************************************************)
(* The record of the last call: what was called, with what, and how it     *)
(* ended (commits: the commits it performed; dirty: whether it left        *)
(* uncommitted changes in the database session).                           *)
(***************************************************************************)
Called(op, sid, arg, o) ==
    [op |-> op, sid |-> sid, arg |-> arg, status |-> o.status, detail |-> o.detail,
     ret |-> o.ret, raised |-> o.raised, commits |-> o.u.commits,
     dirty |-> (o.u.work # o.u.db)]

NoCall ==
    [op |-> "init", sid |-> 0, arg |-> None, status |-> 0, detail |-> "",
     ret |-> None, raised |-> "none", commits |-> 0, dirty |-> FALSE]

(***************************************************************************)
(* The deployment: the database driver of the settings, and the requests   *)
(* that run at the same time, each on a database session of its own.  The  *)
(* sequential specifications run one call at a time on the configured      *)
(* driver: no call is ever in flight between two steps.                    *)
(***************************************************************************)
settings_db_driver == "mysql+pymysql"

Drivers == {"mysql+pymysql", "postgresql"}

Requests == {"a", "b"}

IdleCall ==
    [pc |-> "idle", repo |-> None, session_id |-> 0, counts |-> <<>>, todo |-> {},
     u |-> Begin(EmptyDb), status |-> 0, concurrent |-> FALSE, predictions |-> <<>>]

NoCalls == [w \in Requests |-> IdleCall]

Created(threshold) == create_detection_session(EmptyDb, {}, threshold, NoFail)

(* A database in which one session has been created, with a threshold of  *)
(* 0.8 or of 0.9, and nothing detected.                                    *)
InitDetect ==
    \E t \in {8, 9} :
       /\ db = Created(t).o.u.db
       /\ files = Created(t).files
       /\ last = NoCall
       /\ db_driver = settings_db_driver
       /\ calls = NoCalls

Init ==
    /\ db = EmptyDb
    /\ files = {}
    /\ last = NoCall
    /\ db_driver = settings_db_driver
    /\ calls = NoCalls

(* A database in which one session has been created, with a threshold of  *)
(* 0.8, and nothing detected.                                              *)
InitOneSession ==
    /\ db = Created(8).o.u.db
    /\ files = Created(8).files
    /\ last = NoCall
    /\ db_driver = settings_db_driver
    /\ calls = NoCalls


CountsBounded(d) == \A r \in d.counts : r.count <= MaxCount

CreateDetectionSession(threshold, fail) ==
    \E c \in {create_detection_session(db, files, threshold, fail)} :
       /\ valid_threshold(threshold) => uuid4(db) # 0
       /\ db' = c.o.u.db
       /\ files' = c.files
       /\ last' = Called("create_detection_session", c.session_id, threshold, c.o)
       /\ UNCHANGED <<db_driver, calls>>

SaveCounts(session_id, counts, fail) ==
    /\ fail.done \subseteq DOMAIN counts
    /\ fail.at = "count_query" => fail.done # DOMAIN counts
    /\ \E o \in {save_counts(Begin(db), session_id, counts, fail)} :
          /\ CountsBounded(o.u.db)
          /\ db' = o.u.db
          /\ last' = Called("save_counts", session_id, counts, o)
          /\ UNCHANGED <<files, db_driver, calls>>

GetCounts(session_id) ==
    /\ last' = Called("get_counts", session_id, None, get_counts(Begin(db), session_id))
    /\ UNCHANGED <<db, files, db_driver, calls>>

GetTotalCount(session_id) ==
    /\ last' = Called("get_total_count", session_id, None,
                      get_total_count(Begin(db), session_id))
    /\ UNCHANGED <<db, files, db_driver, calls>>

DeleteSession(session_id, fail) ==
    /\ session_id \in DOMAIN db.sessions
    /\ \E o \in {delete(Begin(db), expire_session(db, session_id), fail)} :
          /\ db' = o.u.db
          /\ last' = Called("delete_session", session_id, None, o)
          /\ UNCHANGED <<files, db_driver, calls>>

DeleteCount(row, fail) ==
    /\ row \in db.counts
    /\ \E o \in {delete(Begin(db), expire_count(db, row), fail)} :
          /\ db' = o.u.db
          /\ last' = Called("delete_count", row.session_id, row.class_name, o)
          /\ UNCHANGED <<files, db_driver, calls>>

GetSessionThreshold(session_id) ==
    /\ last' = Called("get_session_threshold", session_id, None,
                      get_session_threshold(Begin(db), session_id))
    /\ UNCHANGED <<db, files, db_driver, calls>>

GetDetections(session_id) ==
    /\ last' = Called("get_detections", session_id, None,
                      get_detections(Begin(db), session_id))
    /\ UNCHANGED <<db, files, db_driver, calls>>

DetectObjects(session_id, predictions, fail) ==
    \E o \in {detect_objects(Begin(db), session_id, predictions, fail)} :
       /\ Len(o.u.db.detections) <= MaxDetections
       /\ CountsBounded(o.u.db)
       /\ db' = o.u.db
       /\ last' = Called("detect_objects", session_id, predictions, o)
       /\ UNCHANGED <<files, db_driver, calls>>

CreateFails == {Fail(at, {}) : at \in {"none", "flush", "commit", "refresh"}}

SaveCountsFails ==
    {Fail(at, {}) : at \in {"none", "session_query", "commit"}}
        \cup {Fail("count_query", D) : D \in SUBSET Classes}

DeleteFails == {Fail(at, {}) : at \in {"none", "commit", "refresh"}}

(* Inside detect_objects every failing step of save_counts ends alike      *)
(* (rollback, HTTP 500): its commit stands for them.                       *)
DetectFails ==
    {Fail(at, {}) : at \in {"none", "threshold_query", "commit", "final_get",
                            "final_commit", "refresh", "get_detections"}}

(* The session lifecycle: sessions are created, with every threshold and   *)
(* every failure of the database block, soft-deleted and looked up.        *)
Next ==
    \/ \E t \in Thresholds, f \in CreateFails : CreateDetectionSession(t, f)
    \/ \E s \in SessionIds, f \in DeleteFails : DeleteSession(s, f)
    \/ \E s \in SessionIds : GetSessionThreshold(s)

Spec == Init /\ [][Next]_vars

(* The count repository on a database holding session 1; 2 is the id of no *)
(* session, and a call with it fails without an injected failure.          *)
NextRepo ==
    \/ \E s \in SessionIds, c \in CountMaps, f \in SaveCountsFails :
          /\ s \in DOMAIN db.sessions \/ f = NoFail
          /\ SaveCounts(s, c, f)
    \/ \E s \in SessionIds : GetCounts(s)
    \/ \E s \in SessionIds : GetTotalCount(s)

SpecRepo == InitOneSession /\ [][NextRepo]_vars

(* The detection workflow on a database holding session 1; 2 is the id of  *)
(* no session, and a call with it fails without the database raising.      *)
NextDetect ==
    \/ \E s \in SessionIds, p \in PredictionLists, f \in DetectFails :
          /\ s \in DOMAIN db.sessions \/ f = NoFail
          /\ DetectObjects(s, p, f)
    \/ \E s \in SessionIds : GetSessionThreshold(s)
    \/ \E s \in SessionIds : GetDetections(s)

SpecDetect == InitDetect /\ [][NextDetect]_vars

(* Soft deletion of sessions and count rows, and what the reads return     *)
(* afterwards.                                                             *)
NextSoftDelete ==
    \/ \E s \in SessionIds, p \in PredictionLists : DetectObjects(s, p, NoFail)
    \/ \E s \in SessionIds : SaveCounts(s, "cat" :> 1, NoFail)
    \/ \E s \in SessionIds, f \in DeleteFails : DeleteSession(s, f)
    \/ \E r \in db.counts, f \in DeleteFails : DeleteCount(r, f)
    \/ \E s \in SessionIds : GetSessionThreshold(s)
    \/ \E s \in SessionIds : GetDetections(s)
    \/ \E s \in SessionIds : GetCounts(s)
    \/ \E s \in SessionIds : GetTotalCount(s)

SpecSoftDelete == InitOneSession /\ [][NextSoftDelete]_vars

(***************************************************************************)
(* Concurrent save_counts calls: each request runs one call on a database  *)
(* session of its own.  A call reads, then writes when its session is      *)
(* flushed at commit; the steps of two calls interleave.  Rows are the     *)
(* same row when they have the same (session_id, class_name).              *)
(***************************************************************************)
Repositories == {"MySQLObjectCountRepository", "RelationalObjectCountRepository"}

Key(r) == <<r.session_id, r.class_name>>

(* the rows a database session added and the rows it loaded and changed    *)
inserted(u) == {r \in u.work.counts : \A o \in u.db.counts : Key(o) # Key(r)}

updated(u) ==
    {r \in u.work.counts : \E o \in u.db.counts : Key(o) = Key(r) /\ o # r}

unique_violation(base, u) ==
    \E r \in inserted(u), o \in base.counts : Key(o) = Key(r)

(* The flush of a database session onto the committed rows: an UPDATE of   *)
(* the changed columns of every row it changed, an INSERT of every row it  *)
(* added.                                                                  *)
flush(base, u) ==
    [base EXCEPT
       !.sessions =
          [s \in DOMAIN base.sessions |->
             IF s \in DOMAIN u.db.sessions /\ u.work.sessions[s] # u.db.sessions[s]
             THEN [base.sessions[s] EXCEPT
                     !.total_objects_detected =
                         u.work.sessions[s].total_objects_detected]
             ELSE base.sessions[s]],
       !.counts =
          {IF \E n \in updated(u) : Key(n) = Key(r)
           THEN [r EXCEPT !.count = (CHOOSE n \in updated(u) : Key(n) = Key(r)).count]
           ELSE r : r \in base.counts} \cup inserted(u),
       !.detections =
          @ \o SubSeq(u.work.detections, Len(u.db.detections) + 1,
                      Len(u.work.detections))]

(* a database that checks no constraint when a session is flushed          *)
flush_fails_never(base, u) == FALSE

(* the IntegrityError of a flush: the unique constraint on (session_id,    *)
(* class_name) or another constraint of the tables is violated             *)
flush_fails(base, u) ==
    unique_violation(base, u) \/ ~ConstraintsOK(flush(base, u))

(* the rows before the concurrent calls: session 1 with one "cat" counted  *)
ConcurrentDb == save_counts(Begin(Created(8).o.u.db), 1, "cat" :> 1, NoFail).u.db

(* save_counts working on the rows read before the calls began, which it   *)
(* never reads again                                                       *)
save_counts_pending_stale(u, session_id, counts) ==
    [u EXCEPT
       !.db = ConcurrentDb,
       !.work =
          upsert_all([ConcurrentDb EXCEPT
                        !.sessions[session_id].total_objects_detected =
                            SumValues(counts)],
                     session_id, counts, DOMAIN counts)]

(* MySQLObjectCountRepository.save_counts up to its commit                 *)
save_counts_pending(u, session_id, counts) ==
    [u EXCEPT !.work =
       upsert_all([u.work EXCEPT
                     !.sessions[session_id].total_objects_detected = SumValues(counts)],
                  session_id, counts, DOMAIN counts)]

(* insert(...).on_conflict_do_update(...) is a construct of the PostgreSQL *)
(* dialect: no other driver compiles it.                                   *)
compiles_on_conflict(driver) == driver = "postgresql"

(* the statement taking no row lock                                        *)
locked_never(w, session_id, class_name) == FALSE

(* INSERT ... ON CONFLICT DO UPDATE holds its row until the transaction    *)
(* ends: another transaction's statement on the same row waits.            *)
locked(w, session_id, class_name) ==
    \E x \in Requests \ {w} :
       /\ calls[x].pc = "open"
       /\ calls[x].repo = "RelationalObjectCountRepository"
       /\ calls[x].session_id = session_id
       /\ class_name \in DOMAIN calls[x].counts \ calls[x].todo

(* RelationalObjectCountRepository, one call at a time                     *)
Relational_save_counts(u, session_id, counts, driver) ==
    LET failed(at, x) == Raised(at, Rollback(x), 500, "Failed to save counts")
    IN IF counts # <<>> /\ ~compiles_on_conflict(driver) THEN failed("compile", u)
       ELSE IF counts # <<>> /\ session_id \notin DOMAIN u.work.sessions
       THEN failed("integrity", u)
       ELSE LET u1 == [u EXCEPT !.work =
                         upsert_all(u.work, session_id, counts, DOMAIN counts)]
            IN IF session_id \notin DOMAIN u1.work.sessions
               THEN failed("no_result", u1)
               ELSE LET u2 == [u1 EXCEPT
                                 !.work.sessions[session_id].total_objects_detected =
                                     SumValues(counts)]
                    IN IF ~ConstraintsOK(u2.work) THEN failed("integrity", u2)
                       ELSE Outcome(Commit(u2), 200, "", None)

Relational_get_counts(u, session_id) ==
    LET rows == {r \in u.work.counts : r.session_id = session_id}
    IN Outcome(u, 200, "",
               [c \in {r.class_name : r \in rows} |->
                  (CHOOSE r \in rows : r.class_name = c).count])

Relational_get_total_count(u, session_id) ==
    IF session_id \notin DOMAIN u.work.sessions
    THEN Raised("no_result", u, 500, "Failed to retrieve total count")
    ELSE Outcome(u, 200, "", u.work.sessions[session_id].total_objects_detected)

Finished(c, status) == [c EXCEPT !.pc = "done", !.status = status, !.todo = {}]

FailedSaveCounts(at, c) ==
    Raised(at, Rollback(c.u), 500, "Failed to save counts")

BeginSaveCounts(w, repo, session_id, counts) ==
    /\ calls[w].pc = "idle"
    /\ \A x \in Requests : calls[x].pc # "idle" => calls[x].repo = repo
    /\ \E c \in {[IdleCall EXCEPT
                    !.pc = "open", !.repo = repo, !.session_id = session_id,
                    !.counts = counts, !.u = Begin(db),
                    !.concurrent = \E x \in Requests : calls[x].pc = "open"]} :
          \E at \in {IF repo = "MySQLObjectCountRepository"
                     THEN IF session_id \in DOMAIN db.sessions THEN "none"
                          ELSE "no_result"
                     ELSE IF counts # <<>> /\ ~compiles_on_conflict(db_driver)
                          THEN "compile" ELSE "none"} :
             IF at # "none"
             THEN /\ calls' = [calls EXCEPT ![w] = Finished(c, 500)]
                  /\ last' = Called("save_counts", session_id, counts,
                                    FailedSaveCounts(at, c))
             ELSE /\ calls' =
                        [x \in Requests |->
                           IF x = w
                           THEN IF repo = "MySQLObjectCountRepository"
                                THEN [c EXCEPT
                                        !.u = save_counts_pending(c.u, session_id, counts)]
                                ELSE [c EXCEPT !.todo = DOMAIN counts]
                           ELSE IF calls[x].pc = "open"
                                THEN [calls[x] EXCEPT !.concurrent = TRUE]
                                ELSE calls[x]]
                  /\ UNCHANGED last
    /\ UNCHANGED <<db, files, db_driver>>

(* one statement of RelationalObjectCountRepository.save_counts: it reads  *)
(* and writes the row as committed when it runs                            *)
ExecuteUpsert(w, class_name) ==
    /\ calls[w].pc = "open"
    /\ class_name \in calls[w].todo
    /\ ~locked(w, calls[w].session_id, class_name)
    /\ \E c \in {calls[w]} :
          IF c.session_id \notin DOMAIN db.sessions
          THEN /\ calls' = [calls EXCEPT ![w] = Finished(c, 500)]
               /\ last' = Called("save_counts", c.session_id, c.counts,
                                 FailedSaveCounts("integrity", c))
          ELSE /\ \E row \in {{r \in db.counts : Key(r) = <<c.session_id, class_name>>}} :
                    calls' =
                       [calls EXCEPT
                          ![w].todo = @ \ {class_name},
                          ![w].u.db.counts =
                              {r \in @ : Key(r) # <<c.session_id, class_name>>} \cup row,
                          ![w].u.work =
                              upsert([c.u.work EXCEPT
                                        !.counts =
                                           {r \in @ :
                                              Key(r) # <<c.session_id, class_name>>}
                                               \cup row],
                                     c.session_id, class_name, c.counts[class_name])]
               /\ UNCHANGED last
    /\ UNCHANGED <<db, files, db_driver>>

(* the session query and total of RelationalObjectCountRepository, which   *)
(* follow its statements; MySQLObjectCountRepository did them on reading   *)
with_total(u, base, session_id, counts) ==
    [u EXCEPT
       !.db.sessions = base.sessions,
       !.work.sessions =
           [base.sessions EXCEPT
              ![session_id].total_objects_detected = SumValues(counts)]]

CommitSaveCounts(w) ==
    /\ calls[w].pc = "open"
    /\ calls[w].todo = {}
    /\ \E c \in {calls[w]} :
          IF c.repo = "RelationalObjectCountRepository"
             /\ c.session_id \notin DOMAIN db.sessions
          THEN /\ calls' = [calls EXCEPT ![w] = Finished(c, 500)]
               /\ last' = Called("save_counts", c.session_id, c.counts,
                                 FailedSaveCounts("no_result", c))
               /\ UNCHANGED db
          ELSE \E u \in {IF c.repo = "RelationalObjectCountRepository"
                         THEN with_total(c.u, db, c.session_id, c.counts)
                         ELSE c.u} :
                  IF flush_fails(db, u)
                  THEN /\ calls' = [calls EXCEPT ![w] = Finished(c, 500)]
                       /\ last' = Called("save_counts", c.session_id, c.counts,
                                         FailedSaveCounts("integrity", c))
                       /\ UNCHANGED db
                  ELSE /\ db' = flush(db, u)
                       /\ calls' = [calls EXCEPT ![w] = Finished(c, 200)]
                       /\ last' = Called("save_counts", c.session_id, c.counts,
                                         Outcome(Commit(Begin(flush(db, u))), 200, "",
                                                 None))
    /\ UNCHANGED <<files, db_driver>>

(* two transactions each waiting for a row the other holds: the database   *)
(* ends one of them with an error                                          *)
DeadlockDetected(w) ==
    /\ calls[w].pc = "open"
    /\ \E x \in Requests \ {w} :
          /\ \E k \in calls[w].todo : locked(w, calls[w].session_id, k)
          /\ \E k \in calls[x].todo : locked(x, calls[x].session_id, k)
    /\ calls' = [calls EXCEPT ![w] = Finished(calls[w], 500)]
    /\ last' = Called("save_counts", calls[w].session_id, calls[w].counts,
                      FailedSaveCounts("deadlock", calls[w]))
    /\ UNCHANGED <<db, files, db_driver>>

(* Session 1 holds a count row for "cat" and none for "person"; either     *)
(* driver; no call has begun.  Where the repository is the one the service *)
(* uses, whole detect_objects calls run between the steps of the           *)
(* save_counts calls, each with one "person" prediction.                   *)
InitConcurrent ==
    /\ db = ConcurrentDb
    /\ files = Created(8).files
    /\ last = NoCall
    /\ db_driver \in Drivers
    /\ calls = NoCalls

NextConcurrent ==
    \/ \E w \in Requests, repo \in Repositories, s \in SessionIds, c \in CountMaps :
          BeginSaveCounts(w, repo, s, c)
    \/ \E w \in Requests, c \in Classes : ExecuteUpsert(w, c)
    \/ \E w \in Requests : CommitSaveCounts(w)
    \/ \E w \in Requests : DeadlockDetected(w)
    \/ \E p \in PredictionLists :
          /\ Len(p) = 1 /\ p[1].class_name = "person"
          /\ \E x \in Requests : calls[x].repo = "MySQLObjectCountRepository"
          /\ DetectObjects(1, p, NoFail)

SpecConcurrent == InitConcurrent /\ [][NextConcurrent]_vars

(***************************************************************************)
(* The detector (TFSObjectDetector) and the /detect endpoint                *)
(***************************************************************************)
confidence_threshold == 5

detector_configs == {"default"}

ModelIds == {None, "default", "yolo"}

EndpointThresholds == {-1, 0, 3, 8, 10}

classes_dict == (1 :> "person") @@ (17 :> "cat")

(* one detection of the model server's response: class id, score and box   *)
(* as [ymin, xmin, ymax, xmax]                                             *)
RawPrediction(detection_class, detection_score, detection_box) ==
    [detection_class |-> detection_class, detection_score |-> detection_score,
     detection_box |-> detection_box]

(* scores 0.9, 0.8 and 0.4: above, on and below the thresholds 0.8 and     *)
(* 0.5                                                                     *)
RawPredictions ==
    {RawPrediction(17, 9, <<2, 1, 4, 3>>), RawPrediction(1, 8, <<6, 5, 8, 7>>),
     RawPrediction(17, 4, <<2, 1, 4, 3>>)}

RawPredictionLists == SeqsUpTo(RawPredictions, MaxPreds)

raw_predictions_to_domain(raw) ==
    [i \in 1..Len(raw) |->
       [class_name |-> classes_dict[raw[i].detection_class],
        score |-> raw[i].detection_score,
        box |-> [ymin |-> raw[i].detection_box[1], xmin |-> raw[i].detection_box[2],
                 ymax |-> raw[i].detection_box[3], xmax |-> raw[i].detection_box[4]]]]

filter_predictions(predictions) ==
    SelectSeq(predictions, LAMBDA p : p.score >= confidence_threshold)

predict(raw) == filter_predictions(raw_predictions_to_domain(raw))

(* the endpoint's filter with the boundary excluded                        *)
at_threshold_strict(predictions, threshold) ==
    SelectSeq(predictions, LAMBDA p : p.score > threshold)

at_threshold(predictions, threshold) ==
    SelectSeq(predictions, LAMBDA p : p.score >= threshold)

result(prediction) ==
    [class |-> prediction.class_name, confidence |-> prediction.score,
     bbox |-> <<prediction.box.xmin, prediction.box.ymin,
                prediction.box.xmax, prediction.box.ymax>>]

(* the box handed to detect_objects with x and y exchanged                 *)
db_prediction_swapped(prediction) ==
    Prediction(prediction.class_name, prediction.score,
               <<prediction.box.ymin, prediction.box.xmin,
                 prediction.box.ymax, prediction.box.xmax>>)

db_prediction(prediction) ==
    Prediction(prediction.class_name, prediction.score,
               <<prediction.box.xmin, prediction.box.ymin,
                 prediction.box.xmax, prediction.box.ymax>>)

counts_of(kept) ==
    [c \in {kept[i].class_name : i \in 1..Len(kept)} |->
       Cardinality({i \in 1..Len(kept) : kept[i].class_name = c})]

DetectionResponse(kept, threshold) ==
    [results |-> [i \in 1..Len(kept) |-> result(kept[i])],
     counts |-> counts_of(kept),
     total_count |-> SumValues(counts_of(kept)),
     threshold_applied |-> threshold]

(* the request validation of the form fields                               *)
valid_form(threshold, model_id) == threshold >= 0 /\ threshold <= 10

(* get_detector answering for any model id                                 *)
known_model_any(model_id) == TRUE

known_model(model_id) ==
    (IF model_id = None THEN "default" ELSE model_id) \in detector_configs

(* the steps of create_detection_session and of detect_objects at which    *)
(* the failure of a request is raised                                      *)
CreateSteps == {"flush"}

DetectSteps == {"commit", "final_commit"}

(* detect_objects having run by the time the exception of predict ends the *)
(* request                                                                 *)
when_predict_raises_after_detect(created, detected) == detected

(* predict raises before detect_objects is reached: the database session   *)
(* is as create_detection_session left it                                  *)
when_predict_raises(created, detected) == created

(* The endpoint: [o, files, session_id], o.u the database session of the   *)
(* request.  Everything raised inside the try block ends as HTTP 500.      *)
api_detect_objects(d, fs, threshold, model_id, raw, fail) ==
    LET unchanged(status, detail) ==
            [o |-> Outcome(Begin(d), status, detail, None), files |-> fs, session_id |-> 0]
        error(at, u, f, sid) ==
            [o |-> Raised(at, u, 500, "Error processing detection"), files |-> f,
             session_id |-> sid]
    IN IF ~valid_form(threshold, model_id)
       THEN unchanged(422, "validation error")
       ELSE IF ~known_model(model_id) THEN unchanged(400, "Unsupported model")
       ELSE IF fail.at = "get_detector"
       THEN [o |-> Raised("get_detector", Begin(d), 500, "Failed to initialize detector"),
             files |-> fs, session_id |-> 0]
       ELSE LET c == create_detection_session(
                        d, fs, threshold,
                        IF fail.at \in CreateSteps THEN fail ELSE NoFail)
                kept == at_threshold(predict(raw), threshold)
                r == detect_objects(
                        c.o.u, c.session_id,
                        [i \in 1..Len(kept) |-> db_prediction(kept[i])],
                        IF fail.at \in DetectSteps THEN fail ELSE NoFail)
            IN IF c.o.status # 200
               THEN error("create_detection_session", c.o.u, c.files, c.session_id)
               ELSE IF fail.at = "predict"
               THEN error("predict", when_predict_raises(c.o.u, r.u), c.files,
                          c.session_id)
               ELSE IF r.status # 200
               THEN error("detect_objects", r.u, c.files, c.session_id)
               ELSE [o |-> Outcome(r.u, 200, "", DetectionResponse(kept, threshold)),
                     files |-> c.files, session_id |-> c.session_id]

ApiDetectObjects(threshold, model_id, raw, fail) ==
    \E e \in {api_detect_objects(db, files, threshold, model_id, raw, fail)} :
       /\ (valid_form(threshold, model_id) /\ known_model(model_id)
             /\ fail.at # "get_detector") => uuid4(db) # 0
       /\ Len(e.o.u.db.detections) <= MaxDetections
       /\ db' = e.o.u.db
       /\ files' = e.files
       /\ last' = Called("detect", e.session_id,
                         [threshold |-> threshold, model_id |-> model_id, raw |-> raw],
                         e.o)
       /\ UNCHANGED <<db_driver, calls>>

EndpointFails ==
    {Fail(at, {}) : at \in {"none", "get_detector", "predict"} \cup CreateSteps
                              \cup DetectSteps}

(* Requests to /detect on empty tables, with every threshold, model id and *)
(* response of the model server; a failure is raised in a request for the  *)
(* default model with threshold 0.8.  Once a session exists the requests   *)
(* are those for the default model with threshold 0.8, in which predict    *)
(* may raise, and those that are rejected.                                 *)
NextEndpoint ==
    \E t \in EndpointThresholds, m \in ModelIds, raw \in RawPredictionLists,
       f \in EndpointFails :
          /\ \/ DOMAIN db.sessions = {} /\ (f = NoFail \/ (t = 8 /\ m = None))
             \/ t = 8 /\ m = None /\ f.at \in {"none", "predict"}
             \/ f = NoFail /\ raw = <<>> /\ ~(valid_form(t, m) /\ known_model(m))
          /\ ApiDetectObjects(t, m, raw, f)

SpecEndpoint == Init /\ [][NextEndpoint]_vars

(***************************************************************************)
(* MySQLObjectCountRepository.get_class_counts_by_date_range               *)
(***************************************************************************)
Dates == {0, 1, 2, 3}

CreatedAts == {2, 3, 4, 5}

(* the bounds are dates (YYYY-MM-DD): compared with a DateTime column, a   *)
(* date stands for the first instant of its day                            *)
as_datetime(date) == 2 * date

(* the range with its end bound excluded                                   *)
in_date_range_exclusive(created_at, start_date, end_date) ==
    created_at >= as_datetime(start_date) /\ created_at < as_datetime(end_date)

in_date_range(created_at, start_date, end_date) ==
    created_at >= as_datetime(start_date) /\ created_at <= as_datetime(end_date)

RECURSIVE sum_count(_)
sum_count(rows) ==
    IF rows = {} THEN 0
    ELSE LET r == CHOOSE x \in rows : TRUE
         IN r.count + sum_count(rows \ {r})

get_class_counts_by_date_range(u, start_date, end_date) ==
    LET joined == {r \in u.work.counts :
                     /\ r.session_id \in DOMAIN u.work.sessions
                     /\ in_date_range(u.work.sessions[r.session_id].created_at,
                                      start_date, end_date)}
    IN Outcome(u, 200, "",
               [c \in {r.class_name : r \in joined} |->
                  sum_count({r \in joined : r.class_name = c})])

GetClassCountsByDateRange(start_date, end_date) ==
    /\ last' = Called("get_class_counts_by_date_range", 0,
                      [start_date |-> start_date, end_date |-> end_date],
                      get_class_counts_by_date_range(Begin(db), start_date, end_date))
    /\ UNCHANGED <<db, files, db_driver, calls>>

(* the rows after a session was created at instant now and counts saved    *)
(* for it                                                                  *)
created_with_counts(d, now, counts) ==
    LET c == create_detection_session(d, {}, 8, NoFail)
        at == [c.o.u.db EXCEPT !.sessions[c.session_id].created_at = now,
                               !.sessions[c.session_id].updated_at = now]
    IN save_counts(Begin(at), c.session_id, counts, NoFail).u.db

(* Two sessions, each created at some instant of day 1 or day 2, each with *)
(* counts saved once.                                                      *)
InitDateRange ==
    \E t1, t2 \in CreatedAts, c1, c2 \in CountMaps :
       /\ db = created_with_counts(created_with_counts(EmptyDb, t1, c1), t2, c2)
       /\ files = {1, 2}
       /\ last = NoCall
       /\ db_driver = settings_db_driver
       /\ calls = NoCalls

NextDateRange ==
    \E start_date, end_date \in Dates : GetClassCountsByDateRange(start_date, end_date)

SpecDateRange == InitDateRange /\ [][NextDateRange]_vars

(***************************************************************************)
(* DetectionService.update_session_dimensions                              *)
(***************************************************************************)
ImageWidths == {0, 640}

ImageHeights == {0, 480}

Nows == {1, 2}

update_session_dimensions(u, session_id, width, height, now, fail) ==
    LET failed(at, x) ==
            Raised(at, Rollback(x), 400, "Failed to update session dimensions")
        g == get_by_id(u, session_id)
        u1 == [u EXCEPT !.work.sessions[session_id].image_width = width,
                        !.work.sessions[session_id].image_height = height,
                        !.work.sessions[session_id].updated_at = now]
    IN IF fail.at = "get" THEN failed("get", u)
       ELSE IF g.status # 200 THEN g
       ELSE IF fail.at = "commit" THEN failed("commit", u1)
       ELSE IF ~ConstraintsOK(u1.work) THEN failed("integrity", u1)
       ELSE IF fail.at = "refresh" THEN failed("refresh", Commit(u1))
       ELSE Outcome(Commit(u1), 200, "", None)

UpdateSessionDimensions(session_id, width, height, now, fail) ==
    \E o \in {update_session_dimensions(Begin(db), session_id, width, height, now,
                                        fail)} :
       /\ db' = o.u.db
       /\ last' = Called("update_session_dimensions", session_id,
                         [width |-> width, height |-> height, now |-> now], o)
       /\ UNCHANGED <<files, db_driver, calls>>

UpdateFails == {Fail(at, {}) : at \in {"none", "get", "commit", "refresh"}}

(* session 1 with one detection stored and counted                         *)
InitDimensions ==
    /\ db = detect_objects(Created(8).o.u, 1, <<Prediction("cat", 9, <<1, 2, 3, 4>>)>>,
                           NoFail).u.db
    /\ files = Created(8).files
    /\ last = NoCall
    /\ db_driver = settings_db_driver
    /\ calls = NoCalls

(* Dimensions arrive for live, soft-deleted and missing sessions; a second *)
(* session is created and sessions are soft-deleted in between.  The       *)
(* database raises only in calls for a session that has a row.             *)
NextDimensions ==
    \/ \E s \in SessionIds, w \in ImageWidths, h \in ImageHeights, now \in Nows,
          f \in UpdateFails :
          /\ s \in DOMAIN db.sessions \/ f = NoFail
          /\ UpdateSessionDimensions(s, w, h, now, f)
    \/ CreateDetectionSession(8, NoFail)
    \/ \E s \in SessionIds : DeleteSession(s, NoFail)

SpecDimensions == InitDimensions /\ [][NextDimensions]_vars

(***************************************************************************)
(* DatabaseMixin.add, add_all, delete and delete_entities on one database  *)
(* session that lives across the calls (calls["a"].u).  None of them calls *)
(* rollback(); a database session whose commit failed is inactive: every   *)
(* later commit on it raises until rollback() is called, which discards    *)
(* what is pending.                                                        *)
(***************************************************************************)
Entities ==
    {DetectionCount(1, "cat", 1), DetectionCount(1, "person", 1),
     DetectionCount(2, "cat", 1)}

EntityLists == {es \in SeqsUpTo(Entities, 2) : Len(es) = 2 /\ es[1] # es[2]}

(* the unique constraint on (session_id, class_name), for rows to insert   *)
insertable(work, entities) ==
    /\ \A i \in DOMAIN entities :
          existing(work, entities[i].session_id, entities[i].class_name) = {}
    /\ \A i, j \in DOMAIN entities :
          (entities[i].session_id = entities[j].session_id
              /\ entities[i].class_name = entities[j].class_name) => i = j

add(u, entity, fail) ==
    LET u1 == [u EXCEPT !.work.counts = @ \cup {entity}]
    IN IF fail.at = "commit" THEN Raised("commit", u1, 400, "str(e)")
       ELSE IF ~insertable(u.work, <<entity>>) \/ ~ConstraintsOK(u1.work)
       THEN Raised("integrity", u1, 400, "str(e)")
       ELSE IF fail.at = "refresh" THEN Raised("refresh", Commit(u1), 400, "str(e)")
       ELSE Outcome(Commit(u1), 200, "", entity)

(* add_all committing after every entity instead of once                   *)
RECURSIVE add_all_commit_each(_, _, _)
add_all_commit_each(u, entities, fail) ==
    IF entities = <<>> THEN Outcome(u, 200, "", entities)
    ELSE LET first == add(u, Head(entities), fail)
         IN IF first.status # 200 THEN first
            ELSE add_all_commit_each(first.u, Tail(entities), fail)

add_all(u, entities, fail) ==
    LET u1 == [u EXCEPT !.work.counts = @ \cup {entities[i] : i \in DOMAIN entities}]
    IN IF fail.at = "commit" THEN Raised("commit", u1, 400, "str(e)")
       ELSE IF ~insertable(u.work, entities) \/ ~ConstraintsOK(u1.work)
       THEN Raised("integrity", u1, 400, "str(e)")
       ELSE Outcome(Commit(u1), 200, "", entities)

expire_counts(work, rows) ==
    [work EXCEPT !.counts = (@ \ rows) \cup {[r EXCEPT !.expired_at = NOW] : r \in rows}]

(* delete_entities has no try block: what the commit raises leaves the     *)
(* handler as it is, an unhandled error (500)                              *)
delete_entities(u, rows, fail) ==
    LET u1 == [u EXCEPT !.work = expire_counts(u.work, rows)]
    IN IF fail.at = "commit" THEN Raised("commit", u1, 500, "Internal Server Error")
       ELSE IF ~ConstraintsOK(u1.work)
       THEN Raised("integrity", u1, 500, "Internal Server Error")
       ELSE Outcome(Commit(u1), 200, "", None)

(* the database session of the calls, and whether a failed commit has left *)
(* it inactive                                                             *)
session_of(c) == [c.u EXCEPT !.commits = 0]

inactive(c) == c.pc = "inactive"

(* on an inactive session the commit of the operation raises               *)
commit_of(c, fail) == IF inactive(c) THEN Fail("commit", {}) ELSE fail

(* the call record after an operation that ended as o                      *)
after_operation(c, o) ==
    [c EXCEPT !.u = o.u,
              !.pc = IF o.raised \in {"commit", "integrity"} THEN "inactive" ELSE @,
              !.status = o.status]

MixinAdd(entity, fail) ==
    \E o \in {add(session_of(calls["a"]), entity, commit_of(calls["a"], fail))} :
       /\ db' = o.u.db
       /\ calls' = [calls EXCEPT !["a"] = after_operation(@, o)]
       /\ last' = Called("add", entity.session_id, entity, o)
       /\ UNCHANGED <<files, db_driver>>

MixinAddAll(entities, fail) ==
    \E o \in {add_all(session_of(calls["a"]), entities, commit_of(calls["a"], fail))} :
       /\ db' = o.u.db
       /\ calls' = [calls EXCEPT !["a"] = after_operation(@, o)]
       /\ last' = Called("add_all", 0, entities, o)
       /\ UNCHANGED <<files, db_driver>>

MixinDelete(row, fail) ==
    /\ row \in calls["a"].u.work.counts /\ row.expired_at = NULL
    /\ \E o \in {delete(session_of(calls["a"]), expire_count(calls["a"].u.work, row),
                        commit_of(calls["a"], fail))} :
          /\ db' = o.u.db
          /\ calls' = [calls EXCEPT !["a"] = after_operation(@, o)]
          /\ last' = Called("delete", row.session_id, row, o)
          /\ UNCHANGED <<files, db_driver>>

MixinDeleteEntities(rows, fail) ==
    /\ rows \subseteq {r \in calls["a"].u.work.counts : r.expired_at = NULL}
    /\ Cardinality(rows) = 2
    /\ \E o \in {delete_entities(session_of(calls["a"]), rows,
                                 commit_of(calls["a"], fail))} :
          /\ db' = o.u.db
          /\ calls' = [calls EXCEPT !["a"] = after_operation(@, o)]
          /\ last' = Called("delete_entities", 0, rows, o)
          /\ UNCHANGED <<files, db_driver>>

(* rollback() on the database session, as the except clauses of the        *)
(* repository and of the service call it                                   *)
SessionRollback ==
    /\ inactive(calls["a"])
    /\ calls' = [calls EXCEPT !["a"].u = Rollback(@), !["a"].pc = "idle"]
    /\ last' = [NoCall EXCEPT !.op = "rollback"]
    /\ UNCHANGED <<db, files, db_driver>>

MixinFails == {Fail(at, {}) : at \in {"none", "commit", "refresh"}}

(* session 1 exists and session 2 does not; the database session of "a"    *)
(* has read the committed rows                                             *)
InitMixin ==
    /\ db = Created(8).o.u.db
    /\ files = Created(8).files
    /\ last = NoCall
    /\ db_driver = settings_db_driver
    /\ calls = [NoCalls EXCEPT !["a"].u = Begin(Created(8).o.u.db)]

NextMixin ==
    \/ \E e \in Entities, f \in MixinFails : MixinAdd(e, f)
    \/ \E es \in EntityLists, f \in MixinFails : MixinAddAll(es, f)
    \/ \E r \in db.counts, f \in MixinFails : MixinDelete(r, f)
    \/ \E rows \in SUBSET db.counts, f \in MixinFails : MixinDeleteEntities(rows, f)
    \/ SessionRollback

SpecMixin == InitMixin /\ [][NextMixin]_vars

(***************************************************************************)
(* Sessions are created, counted and detected on, also under ids that have *)
(* no session row.                                                         *)
(***************************************************************************)
NextIntegrity ==
    \/ \E f \in CreateFails : CreateDetectionSession(8, f)
    \/ \E s \in SessionIds, c \in {<<>>, "cat" :> 1} : SaveCounts(s, c, NoFail)
    \/ \E s \in SessionIds, p \in PredictionLists :
          /\ p = <<>> \/ (Len(p) = 1 /\ p[1].class_name = "cat")
          /\ DetectObjects(s, p, NoFail)

SpecIntegrity == Init /\ [][NextIntegrity]_vars

(***************************************************************************)
(* Concurrent detect_objects calls on one session, each on a database      *)
(* session of its own, with MySQLObjectCountRepository.  A call reads the  *)
(* threshold and the count rows; its Detection rows and its count rows are *)
(* written when save_counts commits; a second commit then stores the       *)
(* session's total.  The steps of two calls interleave.                    *)
(***************************************************************************)
(* detect_objects up to the commit of save_counts: the Detection rows and  *)
(* the count rows pending in the database session                          *)
detect_objects_pending(u, session_id, predictions) ==
    LET kept == IF predictions = <<>> THEN <<>>
                ELSE kept_predictions(predictions,
                                      get_session_threshold(u, session_id).ret)
        u1 == [u EXCEPT !.work.detections =
                 @ \o [i \in 1..Len(kept) |-> Detection(session_id, kept[i])]]
    IN save_counts_pending(u1, session_id, count_by_class(kept))

(* a failed flush that keeps the Detection rows it had inserted            *)
rolled_back_keeping_detections(base, u) ==
    [base EXCEPT !.detections = flush(base, u).detections]

(* the rows after the flush of save_counts has failed: the except branch   *)
(* rolls the transaction back                                              *)
rolled_back(base, u) == base

(* the session with one "cat" detected and counted                         *)
DetectedDb ==
    detect_objects(Begin(Created(8).o.u.db), 1, <<Prediction("cat", 9, <<1, 2, 3, 4>>)>>,
                   NoFail).u.db

BeginDetectObjects(w, session_id, predictions) ==
    /\ calls[w].pc = "idle"
    /\ get_by_id(Begin(db), session_id).status = 200
    /\ calls' =
          [x \in Requests |->
             IF x = w
             THEN [IdleCall EXCEPT
                     !.pc = "open", !.repo = "MySQLObjectCountRepository",
                     !.session_id = session_id, !.predictions = predictions,
                     !.counts =
                         count_by_class(
                            kept_predictions(predictions,
                                             db.sessions[session_id].threshold)),
                     !.u = detect_objects_pending(Begin(db), session_id, predictions),
                     !.concurrent = \E y \in Requests : calls[y].pc \in {"open", "saved"}]
             ELSE IF calls[x].pc \in {"open", "saved"}
                  THEN [calls[x] EXCEPT !.concurrent = TRUE]
                  ELSE calls[x]]
    /\ UNCHANGED <<db, files, last, db_driver>>

(* the commit of save_counts: the flush fails on a constraint, the         *)
(* transaction is rolled back and the call ends with HTTP 500; or the rows *)
(* are written                                                             *)
CommitDetectCounts(w) ==
    /\ calls[w].pc = "open"
    /\ \E c \in {calls[w]} :
          IF flush_fails(db, c.u)
          THEN /\ db' = rolled_back(db, c.u)
               /\ calls' = [calls EXCEPT ![w] = Finished(c, 500)]
               /\ last' = Called("detect_objects", c.session_id, c.predictions,
                                 FailedSaveCounts("integrity", c))
          ELSE /\ db' = flush(db, c.u)
               /\ calls' = [calls EXCEPT
                              ![w].pc = "saved",
                              ![w].u = Commit(Begin(flush(db, c.u)))]
               /\ UNCHANGED last
    /\ UNCHANGED <<files, db_driver>>

(* the rest of detect_objects: the session is read again, its total is set *)
(* and committed, and the summary is returned                              *)
FinishDetectObjects(w) ==
    /\ calls[w].pc = "saved"
    /\ \E c \in {calls[w]} :
          \E g \in {get_by_id(Begin(db), c.session_id)} :
             IF g.status # 200
             THEN /\ calls' = [calls EXCEPT ![w] = Finished(c, g.status)]
                  /\ last' = Called("detect_objects", c.session_id, c.predictions,
                                    [g EXCEPT !.u.commits = 1])
                  /\ UNCHANGED db
             ELSE \E u \in {[Begin(db) EXCEPT
                               !.commits = 1,
                               !.work.sessions[c.session_id].total_objects_detected =
                                   SumValues(c.counts)]} :
                     /\ db' = flush(db, u)
                     /\ calls' = [calls EXCEPT ![w] = Finished(c, 200)]
                     /\ last' = Called("detect_objects", c.session_id, c.predictions,
                                       Outcome(Commit([u EXCEPT !.work = flush(db, u)]),
                                               200, "",
                                               [session_id |-> c.session_id,
                                                object_counts |-> c.counts,
                                                detections |->
                                                    get_detections(Begin(flush(db, u)),
                                                                   c.session_id).ret,
                                                total_objects_detected |->
                                                    SumValues(c.counts),
                                                threshold_applied |-> g.ret.threshold]))
    /\ UNCHANGED <<files, db_driver>>

(* Session 1, with nothing detected or with one "cat" detected and         *)
(* counted; two requests, each running one detect_objects call on it.      *)
InitConcurrentDetect ==
    /\ db \in {Created(8).o.u.db, DetectedDb}
    /\ files = Created(8).files
    /\ last = NoCall
    /\ db_driver = settings_db_driver
    /\ calls = NoCalls

NextConcurrentDetect ==
    \/ \E w \in Requests, p \in PredictionLists : BeginDetectObjects(w, 1, p)
    \/ \E w \in Requests : CommitDetectCounts(w)
    \/ \E w \in Requests : FinishDetectObjects(w)

SpecConcurrentDetect == InitConcurrentDetect /\ [][NextConcurrentDetect]_vars

(***************************************************************************)
(* Properties                                                              *)
(***************************************************************************)
CountRows(d, session_id, class_name) ==
    {r \in d.counts : r.session_id = session_id /\ r.class_name = class_name}

CountsOf(d, session_id) ==
    [c \in {r.class_name : r \in {x \in d.counts : x.session_id = session_id}} |->
       (CHOOSE r \in d.counts : r.session_id = session_id /\ r.class_name = c).count]

RowSum(d, session_id) ==
    SumValues(CountsOf(d, session_id))

SavedOk(l) == l.op = "save_counts" /\ l.status = 200

(* C1: a successful save_counts(session_id, counts) adds counts[c] to the  *)
(* existing row of every class c in counts, inserts a row with count       *)
(* counts[c] where there was none, and leaves every other count row as it  *)
(* was; so a second {"cat": 2} on a session holding only {"cat": 2} gives  *)
(* get_counts = {"cat": 4}.                                                *)
C1_SaveCountsAdditive ==
    [][SavedOk(last') =>
         /\ \A c \in DOMAIN last'.arg :
               /\ Cardinality(CountRows(db', last'.sid, c)) = 1
               /\ IF CountRows(db, last'.sid, c) = {}
                  THEN CountRows(db', last'.sid, c) =
                          {DetectionCount(last'.sid, c, last'.arg[c])}
                  ELSE CountRows(db', last'.sid, c) =
                          {[r EXCEPT !.count = r.count + last'.arg[c]] :
                             r \in CountRows(db, last'.sid, c)}
         /\ \A r \in db.counts \cup db'.counts :
               (r.session_id # last'.sid \/ r.class_name \notin DOMAIN last'.arg)
                   => (r \in db.counts /\ r \in db'.counts)
         /\ (last'.arg = ("cat" :> 2) /\ CountsOf(db, last'.sid) = ("cat" :> 2))
               => get_counts(Begin(db'), last'.sid).ret = ("cat" :> 4)]_vars

C1_Witness ==
    /\ SavedOk(last) /\ last.arg = ("cat" :> 2)
    /\ get_counts(Begin(db), last.sid).ret = ("cat" :> 4)

(* C2: after a successful save_counts the session's total_objects_detected *)
(* is the sum of the map of that call, whatever it was before, and a       *)
(* successful get_total_count returns the stored field.                    *)
C2_TotalOverwritten ==
    /\ SavedOk(last) =>
          db.sessions[last.sid].total_objects_detected = SumValues(last.arg)
    /\ (last.op = "get_total_count" /\ last.status = 200) =>
          last.ret = db.sessions[last.sid].total_objects_detected

C2_Witness ==
    /\ last.op = "get_total_count" /\ last.status = 200
    /\ last.ret = 2
    /\ RowSum(db, last.sid) = 4

(* C3: a save_counts call in which a database step raises ends with HTTP   *)
(* 500 "Failed to save counts", rolled back: the count rows and the        *)
(* session are as before the call and nothing is left uncommitted.         *)
C3_SaveCountsAllOrNothing ==
    [][(last'.op = "save_counts" /\ (last'.raised # "none" \/ last'.status # 200)) =>
         /\ last'.raised # "none"
         /\ last'.status = 500 /\ last'.detail = "Failed to save counts"
         /\ db' = db
         /\ ~last'.dirty]_vars

C3_Witness ==
    /\ last.op = "save_counts" /\ last.raised = "count_query" /\ last.status = 500
    /\ Cardinality(DOMAIN last.arg) = 2
    /\ db.counts # {}

DetectedOk(l) == l.op = "detect_objects" /\ l.status = 200

RECURSIVE AtOrAbove(_, _)
AtOrAbove(predictions, threshold) ==
    IF predictions = <<>> THEN <<>>
    ELSE IF Head(predictions).confidence >= threshold
    THEN <<Head(predictions)>> \o AtOrAbove(Tail(predictions), threshold)
    ELSE AtOrAbove(Tail(predictions), threshold)

NumberOf(kept, class_name) ==
    Cardinality({i \in 1..Len(kept) : kept[i].class_name = class_name})

StoredCount(d, session_id, class_name) ==
    IF CountRows(d, session_id, class_name) = {} THEN 0
    ELSE (CHOOSE r \in CountRows(d, session_id, class_name) : TRUE).count

(* C4: a successful detect_objects(session_id, predictions) appends one    *)
(* Detection row for each prediction whose confidence is at or above the   *)
(* session's stored threshold (the boundary included) and for no other,    *)
(* hands save_counts the per-class counts of the kept predictions, which   *)
(* are added to the count rows, and sets total_objects_detected to the     *)
(* number kept; threshold 0.8 with confidences [0.9, 0.7] on a fresh       *)
(* session gives one Detection row and total 1.                            *)
C4_DetectKeepsAtOrAboveThreshold ==
    [][DetectedOk(last') =>
         LET sid == last'.sid
             kept == AtOrAbove(last'.arg, db.sessions[sid].threshold)
         IN /\ db'.detections =
                  db.detections \o
                      [i \in 1..Len(kept) |->
                         [session_id |-> sid, class_name |-> kept[i].class_name,
                          confidence |-> kept[i].confidence, bbox |-> kept[i].bbox]]
            /\ DOMAIN last'.ret.object_counts =
                  {kept[i].class_name : i \in 1..Len(kept)}
            /\ \A c \in Classes :
                  /\ c \in DOMAIN last'.ret.object_counts =>
                        last'.ret.object_counts[c] = NumberOf(kept, c)
                  /\ StoredCount(db', sid, c) = StoredCount(db, sid, c) + NumberOf(kept, c)
            /\ db'.sessions[sid].total_objects_detected = Len(kept)
            /\ (db.detections = <<>> /\ db.sessions[sid].threshold = 8
                  /\ [i \in 1..Len(last'.arg) |-> last'.arg[i].confidence] = <<9, 7>>)
                  => /\ Len(db'.detections) = 1
                     /\ db'.sessions[sid].total_objects_detected = 1]_vars

C4_Witness ==
    /\ DetectedOk(last)
    /\ [i \in 1..Len(last.arg) |-> last.arg[i].confidence] = <<9, 7>>
    /\ db.sessions[last.sid].threshold = 8
    /\ Len(db.detections) = 1
    /\ db.sessions[last.sid].total_objects_detected = 1

(* C5: a detect_objects call that fails, at whatever step, leaves storage  *)
(* as it was before the call: no Detection row, no DetectionCount change   *)
(* and no session change of that call is committed.                        *)
C5_DetectFailureLeavesNothing ==
    [][(last'.op = "detect_objects" /\ last'.status # 200) => db' = db]_vars

(* C6: create_detection_session with a threshold outside [0.0, 1.0] ends   *)
(* with HTTP 400 "Threshold must be between 0.0 and 1.0" and changes       *)
(* neither the rows nor the files; with a threshold inside the range, the  *)
(* bounds included, it does not end with that error.                       *)
C6_ThresholdValidatedFirst ==
    [][last'.op = "create_detection_session" =>
         IF last'.arg < 0 \/ last'.arg > 10
         THEN /\ last'.status = 400
              /\ last'.detail = "Threshold must be between 0.0 and 1.0"
              /\ db' = db /\ files' = files
         ELSE last'.detail # "Threshold must be between 0.0 and 1.0"]_vars

C6_Witness ==
    /\ last.op = "create_detection_session" /\ last.arg = 15 /\ last.status = 400
    /\ DOMAIN db.sessions # {}

(* C7: when create_detection_session returns, the session id is new, and   *)
(* storage holds its DetectionSession row and its DetectionImage row, both *)
(* live, the session with total_objects_detected 0 and the threshold       *)
(* passed in, the image row referring to the session; the call committed   *)
(* once, so both rows were committed together.                             *)
C7_CreateCommitsSessionAndImage ==
    [][(last'.op = "create_detection_session" /\ last'.status = 200) =>
         LET sid == last'.sid
         IN /\ sid \notin DOMAIN db.sessions /\ sid \notin DOMAIN db.images
            /\ sid \in DOMAIN db'.sessions /\ sid \in DOMAIN db'.images
            /\ db'.sessions[sid].expired_at = NULL
            /\ db'.images[sid].expired_at = NULL
            /\ db'.sessions[sid].total_objects_detected = 0
            /\ db'.sessions[sid].threshold = last'.arg
            /\ db'.images[sid].session_id = sid
            /\ last'.commits = 1
            /\ \A other \in DOMAIN db.sessions :
                  other \in DOMAIN db'.sessions /\ db'.sessions[other] = db.sessions[other]
            /\ DOMAIN db'.sessions = DOMAIN db.sessions \cup {sid}
            /\ DOMAIN db'.images = DOMAIN db.images \cup {sid}]_vars

C7_Witness ==
    /\ last.op = "create_detection_session" /\ last.status = 200
    /\ Cardinality(DOMAIN db.sessions) = 2
    /\ last.arg = 8

(* C8: when the database raises in create_detection_session's database     *)
(* block, none of the session's image file, DetectionSession row and       *)
(* DetectionImage row exists afterwards; in every state the three exist    *)
(* together or not at all.                                                 *)
C8_CreateFailureLeavesNothing ==
    /\ (last.op = "create_detection_session" /\ last.raised # "none") =>
          /\ last.sid \notin files
          /\ last.sid \notin DOMAIN db.sessions
          /\ last.sid \notin DOMAIN db.images
    /\ \A sid \in SessionIds :
          /\ (sid \in files) = (sid \in DOMAIN db.sessions)
          /\ (sid \in files) = (sid \in DOMAIN db.images)

Expired(d, session_id) ==
    session_id \in DOMAIN d.sessions /\ d.sessions[session_id].expired_at # NULL

(* C9: once a session is soft-deleted, get_session_threshold ends with 404 *)
(* and get_detections returns none of its detections, while its row stays  *)
(* in the table.                                                           *)
C9_SoftDeletedSessionHidden ==
    /\ (last.op = "delete_session" /\ last.status = 200) => Expired(db, last.sid)
    /\ (last.op = "get_session_threshold" /\ Expired(db, last.sid)) => last.status = 404
    /\ (last.op = "get_detections" /\ Expired(db, last.sid)) =>
          (last.status = 404 \/ last.ret = <<>>)

(* C10: get_counts leaves out the count rows whose expired_at is set, and  *)
(* get_total_count and save_counts treat a session whose expired_at is set *)
(* as missing.                                                             *)
C10_RepositoryReadsLiveRows ==
    /\ (last.op = "get_counts" /\ last.status = 200) =>
          \A c \in DOMAIN last.ret :
             \E r \in CountRows(db, last.sid, c) : r.expired_at = NULL
    /\ (last.op \in {"get_total_count", "save_counts"} /\ Expired(db, last.sid)) =>
          last.status # 200

(* C11: in every state reached by interleaved save_counts calls there is   *)
(* at most one DetectionCount row for a (session_id, class_name) pair.     *)
C11_OneCountRowPerClass ==
    \A r1, r2 \in db.counts : Key(r1) = Key(r2) => r1 = r2

(* two overlapping calls found no "person" row and both added one: one     *)
(* committed, the other was refused                                        *)
C11_Witness ==
    /\ calls["a"].pc = "done" /\ calls["b"].pc = "done"
    /\ calls["a"].concurrent /\ calls["b"].concurrent
    /\ calls["a"].repo = "MySQLObjectCountRepository"
    /\ calls["a"].session_id = 1 /\ calls["b"].session_id = 1
    /\ "person" \in DOMAIN calls["a"].counts \cap DOMAIN calls["b"].counts
    /\ {calls["a"].status, calls["b"].status} = {200, 500}
    /\ Cardinality(CountRows(db, 1, "person")) = 1

BothSaved ==
    \A w \in Requests :
       calls[w].pc = "done" /\ calls[w].status = 200 /\ calls[w].session_id = 1

Increment(w, class_name) ==
    IF class_name \in DOMAIN calls[w].counts THEN calls[w].counts[class_name] ELSE 0

(* both calls committed and the row holds less than the count before the   *)
(* calls plus both increments                                              *)
LostUpdate(class_name) ==
    /\ BothSaved
    /\ class_name \in DOMAIN calls["a"].counts \cap DOMAIN calls["b"].counts
    /\ StoredCount(db, 1, class_name) <
          StoredCount(ConcurrentDb, 1, class_name)
              + Increment("a", class_name) + Increment("b", class_name)

Relational ==
    \E w \in Requests : calls[w].repo = "RelationalObjectCountRepository"

(* C13: with RelationalObjectCountRepository, when the save_counts calls   *)
(* of both requests on a session have succeeded, however their statements  *)
(* interleaved, every class holds the count before the calls plus the      *)
(* increments of both; and no call on an existing session fails because    *)
(* of a row the other call inserted.                                       *)
C13_AtomicUpsertKeepsEveryIncrement ==
    Relational =>
       /\ BothSaved =>
             \A c \in Classes :
                StoredCount(db, 1, c) =
                   StoredCount(ConcurrentDb, 1, c) + Increment("a", c) + Increment("b", c)
       /\ (last.op = "save_counts" /\ last.sid = 1) => last.raised # "integrity"

C13_Witness ==
    /\ Relational /\ BothSaved
    /\ calls["a"].concurrent /\ calls["b"].concurrent
    /\ calls["a"].counts = ("cat" :> 1) @@ ("person" :> 1)
    /\ calls["b"].counts = ("cat" :> 2) @@ ("person" :> 2)
    /\ StoredCount(db, 1, "cat") = 4 /\ StoredCount(db, 1, "person") = 3

(* C14: for one caller the two repositories are interchangeable: every    *)
(* save_counts, get_counts and get_total_count call of                     *)
(* MySQLObjectCountRepository in which the database raises nothing of its  *)
(* own, made through RelationalObjectCountRepository on the same rows,     *)
(* ends with the same status and the same returned value and leaves the    *)
(* same rows.                                                              *)
C14_RepositoriesInterchangeable ==
    [][/\ (last'.op = "save_counts" /\ last'.raised \in {"none", "no_result"}) =>
             \E r \in {Relational_save_counts(Begin(db), last'.sid, last'.arg,
                                              db_driver)} :
                r.status = last'.status /\ r.ret = last'.ret /\ r.u.db = db'
       /\ last'.op = "get_counts" =>
             \E r \in {Relational_get_counts(Begin(db), last'.sid)} :
                r.status = last'.status /\ r.ret = last'.ret
       /\ last'.op = "get_total_count" =>
             \E r \in {Relational_get_total_count(Begin(db), last'.sid)} :
                r.status = last'.status /\ r.ret = last'.ret]_vars

(* C15: once detect_objects has succeeded for a session, a later           *)
(* detect_objects call for the same session adds no Detection row and      *)
(* changes neither its count rows nor its total_objects_detected (stated   *)
(* for a call that directly follows the successful one and returns).       *)
C15_SingleDetectionPass ==
    [][(DetectedOk(last) /\ DetectedOk(last') /\ last'.sid = last.sid) =>
         /\ db'.detections = db.detections
         /\ db'.counts = db.counts
         /\ db'.sessions[last.sid].total_objects_detected =
               db.sessions[last.sid].total_objects_detected]_vars

(* C16: when a /detect request fails after its session was created        *)
(* (predict raises, or detect_objects fails), no DetectionSession row, no  *)
(* DetectionImage row and no image file of that session remains.           *)
C16_FailedRequestLeavesNoTrace ==
    (last.op = "detect" /\ last.status # 200
        /\ last.raised \in {"predict", "detect_objects"}) =>
       /\ last.sid \notin DOMAIN db.sessions
       /\ last.sid \notin DOMAIN db.images
       /\ last.sid \notin files

(* C17: a /detect request in which predict raises ends with status 500,    *)
(* writes no Detection row and no DetectionCount row, and leaves none for  *)
(* the session it created.                                                 *)
C17_PredictFailureWritesNoDetections ==
    [][(last'.op = "detect" /\ last'.raised = "predict") =>
         /\ last'.status = 500
         /\ db'.detections = db.detections
         /\ db'.counts = db.counts
         /\ \A i \in 1..Len(db'.detections) : db'.detections[i].session_id # last'.sid
         /\ \A r \in db'.counts : r.session_id # last'.sid]_vars

C17_Witness ==
    /\ last.op = "detect" /\ last.raised = "predict" /\ last.status = 500
    /\ last.sid \in DOMAIN db.sessions
    /\ Len(last.arg.raw) = 2 /\ last.arg.raw[1].detection_score = 9
    /\ Len(db.detections) > 0

RECURSIVE ScoreAtOrAbove(_, _)
ScoreAtOrAbove(predictions, threshold) ==
    IF predictions = <<>> THEN <<>>
    ELSE IF Head(predictions).score >= threshold
    THEN <<Head(predictions)>> \o ScoreAtOrAbove(Tail(predictions), threshold)
    ELSE ScoreAtOrAbove(Tail(predictions), threshold)

(* C18: in the response of a successful /detect request with threshold t,  *)
(* results are the predictions returned by predict whose score is at or    *)
(* above t (the boundary included), in their order; counts maps each class *)
(* among them to their number of that class; total_count is the sum of     *)
(* counts and the length of results.                                       *)
C18_ResponseIsFilteredPredictions ==
    (last.op = "detect" /\ last.status = 200) =>
       LET kept == ScoreAtOrAbove(predict(last.arg.raw), last.arg.threshold)
       IN /\ last.ret.results =
                [i \in 1..Len(kept) |->
                   [class |-> kept[i].class_name, confidence |-> kept[i].score,
                    bbox |-> <<kept[i].box.xmin, kept[i].box.ymin,
                               kept[i].box.xmax, kept[i].box.ymax>>]]
          /\ DOMAIN last.ret.counts = {kept[i].class_name : i \in 1..Len(kept)}
          /\ \A c \in DOMAIN last.ret.counts : last.ret.counts[c] = NumberOf(kept, c)
          /\ last.ret.total_count = SumValues(last.ret.counts)
          /\ last.ret.total_count = Len(last.ret.results)

C18_Witness ==
    /\ last.op = "detect" /\ last.status = 200 /\ last.arg.threshold = 8
    /\ [i \in 1..Len(last.arg.raw) |-> last.arg.raw[i].detection_score] = <<8, 9>>
    /\ [i \in 1..Len(last.ret.results) |-> last.ret.results[i].confidence] = <<8, 9>>
    /\ last.ret.counts = ("person" :> 1) @@ ("cat" :> 1)

RECURSIVE RawAtOrAbove(_, _)
RawAtOrAbove(raw, threshold) ==
    IF raw = <<>> THEN <<>>
    ELSE IF Head(raw).detection_score >= threshold
    THEN <<Head(raw)>> \o RawAtOrAbove(Tail(raw), threshold)
    ELSE RawAtOrAbove(Tail(raw), threshold)

(* C19: in a successful /detect request with threshold t, the results, and *)
(* the Detection rows stored for the session, are the predictions of the   *)
(* model server with score at or above t, also when t is below the         *)
(* detector's confidence_threshold.                                        *)
C19_RequestThresholdAppliesToRawPredictions ==
    (last.op = "detect" /\ last.status = 200) =>
       LET kept == RawAtOrAbove(last.arg.raw, last.arg.threshold)
           stored == SelectSeq(db.detections, LAMBDA det : det.session_id = last.sid)
       IN /\ [i \in 1..Len(last.ret.results) |-> last.ret.results[i].confidence] =
                [i \in 1..Len(kept) |-> kept[i].detection_score]
          /\ [i \in 1..Len(stored) |-> stored[i].confidence] =
                [i \in 1..Len(kept) |-> kept[i].detection_score]

(* C20: a /detect request with a threshold outside [0.0, 1.0] ends with     *)
(* status 422, and one with a threshold inside it and a model id that is   *)
(* not configured with status 400; neither creates a row or a file.        *)
C20_RejectedBeforeCreate ==
    [][last'.op = "detect" =>
         /\ (last'.arg.threshold < 0 \/ last'.arg.threshold > 10) =>
               (last'.status = 422 /\ db' = db /\ files' = files)
         /\ (last'.arg.threshold >= 0 /\ last'.arg.threshold <= 10
               /\ last'.arg.model_id = "yolo") =>
               (last'.status = 400 /\ db' = db /\ files' = files)]_vars

C20_Witness ==
    /\ last.op = "detect" /\ last.status = 400 /\ last.arg.model_id = "yolo"
    /\ DOMAIN db.sessions # {}

(* C21: a client error raised by create_detection_session inside the       *)
(* /detect handler (HTTP 400) reaches the caller of /detect with a 4xx     *)
(* status.                                                                 *)
C21_ClientErrorStaysClientError ==
    (last.op = "detect" /\ last.raised = "create_detection_session") =>
       last.status \in 400..499

(* C22: the summary returned by a successful detect_objects call lists     *)
(* exactly the predictions kept in that call, whatever Detection rows the  *)
(* session had before: detections has one entry (class_name, confidence,   *)
(* bbox) per kept prediction, and its length is total_objects_detected and *)
(* the sum of object_counts.                                               *)
C22_SummaryListsKeptPredictions ==
    DetectedOk(last) =>
       LET kept == AtOrAbove(last.arg, db.sessions[last.sid].threshold)
       IN /\ last.ret.detections =
                [i \in 1..Len(kept) |->
                   [class_name |-> kept[i].class_name,
                    confidence |-> kept[i].confidence, bbox |-> kept[i].bbox]]
          /\ Len(last.ret.detections) = last.ret.total_objects_detected
          /\ Len(last.ret.detections) = SumValues(last.ret.object_counts)

InRange(d, session_id, l) ==
    /\ session_id \in DOMAIN d.sessions
    /\ 2 * l.arg.start_date <= d.sessions[session_id].created_at
    /\ d.sessions[session_id].created_at <= 2 * l.arg.end_date

RECURSIVE TotalInRange(_, _, _, _)
TotalInRange(d, sessions, class_name, l) ==
    IF sessions = {} THEN 0
    ELSE LET s == CHOOSE x \in sessions : TRUE
         IN (IF InRange(d, s, l) THEN StoredCount(d, s, class_name) ELSE 0)
               + TotalInRange(d, sessions \ {s}, class_name, l)

(* C23: get_class_counts_by_date_range(start, end) maps each class to the  *)
(* sum of the counts of the count rows whose session has start <=          *)
(* created_at <= end, both bounds included (a date standing for the first  *)
(* instant of its day); a class with no row in range is absent, and the    *)
(* sessions outside the range add nothing.                                 *)
C23_DateRangeSumsSessionsInRange ==
    last.op = "get_class_counts_by_date_range" =>
       /\ last.status = 200
       /\ \A c \in Classes :
             IF TotalInRange(db, SessionIds, c, last) = 0
             THEN c \notin DOMAIN last.ret
             ELSE c \in DOMAIN last.ret
                     /\ last.ret[c] = TotalInRange(db, SessionIds, c, last)
       /\ DOMAIN last.ret \subseteq Classes

(* session 1 created on the end bound and counted, session 2 created half  *)
(* a day later and left out                                                *)
C23_Witness ==
    /\ last.op = "get_class_counts_by_date_range"
    /\ last.arg = [start_date |-> 1, end_date |-> 2]
    /\ db.sessions[1].created_at = 4 /\ db.sessions[2].created_at = 5
    /\ CountsOf(db, 1) = ("cat" :> 2) /\ CountsOf(db, 2) = ("cat" :> 1) @@ ("person" :> 1)
    /\ last.ret = ("cat" :> 2)

(* C24: update_session_dimensions(session_id, width, height) that returns  *)
(* for a live session has changed image_width, image_height and updated_at *)
(* of that session and nothing else: its other fields, the other sessions  *)
(* and every Detection, DetectionCount and DetectionImage row are as       *)
(* before; for a missing or soft-deleted session it ends with 404 and      *)
(* changes nothing.                                                        *)
C24_UpdateDimensionsFrame ==
    [][last'.op = "update_session_dimensions" =>
         LET sid == last'.sid
         IN IF sid \in DOMAIN db.sessions /\ db.sessions[sid].expired_at = NULL
            THEN last'.status = 200 =>
                    /\ db'.sessions =
                          [db.sessions EXCEPT
                             ![sid].image_width = last'.arg.width,
                             ![sid].image_height = last'.arg.height,
                             ![sid].updated_at = last'.arg.now]
                    /\ db'.sessions[sid].threshold = db.sessions[sid].threshold
                    /\ db'.sessions[sid].total_objects_detected =
                          db.sessions[sid].total_objects_detected
                    /\ db'.sessions[sid].expired_at = NULL
                    /\ db'.detections = db.detections
                    /\ db'.counts = db.counts
                    /\ db'.images = db.images
            ELSE last'.raised = "none" => (last'.status = 404 /\ db' = db)]_vars

(* dimensions set on live session 1, which has a detection and a count     *)
(* row, while session 2 is soft-deleted                                    *)
C24_Witness ==
    /\ last.op = "update_session_dimensions" /\ last.status = 200 /\ last.sid = 1
    /\ db.sessions[1].image_width = 640 /\ db.sessions[1].image_height = 480
    /\ db.sessions[1].updated_at = 2
    /\ db.sessions[1].total_objects_detected = 1
    /\ Len(db.detections) = 1 /\ db.counts # {}
    /\ Expired(db, 2)

MixinOps == {"add", "add_all", "delete", "delete_entities"}

(* the count rows after the whole of an operation                          *)
RowsAfter(rows, l) ==
    IF l.op = "add" THEN rows \cup {l.arg}
    ELSE IF l.op = "add_all" THEN rows \cup {l.arg[i] : i \in DOMAIN l.arg}
    ELSE IF l.op = "delete"
    THEN (rows \ {l.arg}) \cup {[l.arg EXCEPT !.expired_at = NOW]}
    ELSE (rows \ l.arg) \cup {[r EXCEPT !.expired_at = NOW] : r \in l.arg}

(* C25: add, add_all, delete and delete_entities are all-or-nothing: an    *)
(* operation whose commit fails changes no committed row, and an           *)
(* operation whose commit succeeds commits the whole of its own batch and  *)
(* nothing else, so nothing of an earlier failed operation on the same     *)
(* database session is persisted by it.                                    *)
C25_GatewayAllOrNothing ==
    [][last'.op \in MixinOps =>
         /\ last'.raised \in {"commit", "integrity"} => db' = db
         /\ last'.raised \in {"none", "refresh"} =>
               /\ db'.counts = RowsAfter(db.counts, last')
               /\ db'.sessions = db.sessions /\ db'.images = db.images
               /\ db'.detections = db.detections]_vars

(* an add_all of a new row and of a row that breaks the unique constraint: *)
(* its commit failed, the new row is not committed, and the database       *)
(* session, which still holds both, is inactive                            *)
C25_Witness ==
    /\ last.op = "add_all" /\ last.raised = "integrity" /\ last.status = 400
    /\ last.arg = <<DetectionCount(1, "person", 1), DetectionCount(1, "cat", 1)>>
    /\ db.counts = {DetectionCount(1, "cat", 1)}
    /\ last.dirty /\ inactive(calls["a"])

(* C26: in every state each Detection, DetectionCount and DetectionImage   *)
(* row refers to a DetectionSession row that exists; save_counts and       *)
(* detect_objects called with an id that has no session row fail, and no   *)
(* Detection or DetectionCount row exists for that id.                     *)
C26_ReferentialIntegrity ==
    /\ \A i \in DOMAIN db.detections :
          db.detections[i].session_id \in DOMAIN db.sessions
    /\ \A r \in db.counts : r.session_id \in DOMAIN db.sessions
    /\ \A s \in DOMAIN db.images : db.images[s].session_id \in DOMAIN db.sessions
    /\ (last.op \in {"save_counts", "detect_objects"}
           /\ last.sid \notin DOMAIN db.sessions) =>
          /\ last.status # 200
          /\ \A r \in db.counts : r.session_id # last.sid
          /\ \A i \in DOMAIN db.detections : db.detections[i].session_id # last.sid

(* detect_objects with a prediction above every threshold, for an id that  *)
(* has no session row, while another session has rows of all three tables  *)
C26_Witness ==
    /\ last.op = "detect_objects" /\ last.sid = 2 /\ 2 \notin DOMAIN db.sessions
    /\ last.arg = <<Prediction("cat", 9, <<1, 2, 3, 4>>)>>
    /\ last.status = 404
    /\ Len(db.detections) > 0 /\ db.counts # {} /\ 1 \in DOMAIN db.images

DetectionsOf(d, session_id, class_name) ==
    Cardinality({i \in DOMAIN d.detections :
                   /\ d.detections[i].session_id = session_id
                   /\ d.detections[i].class_name = class_name})

(* C27: after any sequence of detect_objects calls, one at a time, each    *)
(* succeeding or failing at any step, the count stored for a session and   *)
(* class is the number of Detection rows of that session and class, and    *)
(* there is a count row exactly where there is a Detection row.            *)
C27_CountsMatchDetections ==
    \A s \in SessionIds, c \in Classes :
       /\ StoredCount(db, s, c) = DetectionsOf(db, s, c)
       /\ (CountRows(db, s, c) # {}) = (DetectionsOf(db, s, c) > 0)

(* a call that failed after a call had stored two detections of one class  *)
C27_Witness ==
    /\ last.op = "detect_objects" /\ last.status # 200 /\ last.raised = "commit"
    /\ Len(last.arg) > 0
    /\ StoredCount(db, 1, "cat") = 2 /\ DetectionsOf(db, 1, "cat") = 2

(* C28: detect_objects for a session id that is missing or soft-deleted    *)
(* ends with 404 for every prediction list, the empty list included, and   *)
(* leaves every row as it was.                                             *)
C28_DetectOnMissingSessionIsNotFound ==
    [][(last'.op = "detect_objects"
          /\ (last'.sid \notin DOMAIN db.sessions \/ Expired(db, last'.sid))) =>
         (last'.status = 404 /\ db' = db)]_vars


C30_FailedConcurrentDetectLeavesNothing ==
    [][/\ \A w \in Requests :
             (calls[w].pc = "open" /\ calls'[w].pc = "done"
                /\ unique_violation(db, calls[w].u)) =>
                (calls'[w].status = 500 /\ db' = db)
       /\ (\E w \in Requests : calls'[w].pc = "done" /\ calls'[w].status = 500) =>
             \A c \in Classes : StoredCount(db', 1, c) = DetectionsOf(db', 1, c)]_vars

C30_Witness ==
    /\ calls["a"].pc = "done" /\ calls["a"].status = 200
    /\ calls["b"].pc = "done" /\ calls["b"].status = 500 /\ calls["b"].concurrent
    /\ "person" \in DOMAIN calls["a"].counts
    /\ calls["b"].counts = ("cat" :> 1) @@ ("person" :> 1)
    /\ StoredCount(db, 1, "person") = 1 /\ DetectionsOf(db, 1, "person") = 1
    /\ StoredCount(db, 1, "cat") = 2 /\ DetectionsOf(db, 1, "cat") = 2

====
